---- MODULE Spec2Model ----
(***************************************************************************)
(* GEN-Rescue backend: the SOS intake-and-triage pipeline.                 *)
(*                                                                         *)
(* The module models                                                       *)
(*   - the keyword ruleset, validateAIAnalysis and validateSOSData         *)
(*     (validationService),                                                *)
(*   - analyzeSOSContent (gptService) over the replies of the upstream     *)
(*     completion service,                                                 *)
(*   - transcribeAudio (whisperService) over the replies of the upstream   *)
(*     transcription service,                                              *)
(*   - the controller's handlers createVoiceSOS / processVoiceSOS,         *)
(*     createTextSOS and updateSOSStatus over the SOS collection.          *)
(*                                                                         *)
(* Texts are sequences of one-character strings, so that toLowerCase and   *)
(* String.includes are computed character by character.  Confidence values *)
(* are hundredths (0.6 is 60).  An optional value is a sequence of length  *)
(* at most one: <<>> is null/undefined, <<x>> is x.                        *)
(***************************************************************************)
EXTENDS Integers, Sequences, FiniteSets, TLC

VARIABLES
  vAnalysis,   \* validation harness: the aiAnalysis argument
  vText,       \* validation harness: the transcript argument
  vResult,     \* validation harness: <<>> or <<result of validateAIAnalysis>>
  vStored,     \* validation harness: <<>> or <<aiAnalysis object of the final update>>
  uResponse,   \* analysis harness: the reply of the completion service
  uOutcome,    \* analysis harness: <<>> or <<outcome of analyzeSOSContent>>
  sData,       \* intake harness: the sosData argument of validateSOSData
  sResult,     \* intake harness: <<>> or <<result of validateSOSData>>
  tReply,      \* transcription harness: the reply of the transcription service
  tOutcome,    \* transcription harness: <<>> or <<outcome of transcribeAudio>>
  cases,       \* the SOS collection: a sequence of documents, _id = index
  requests,    \* the intake requests: handler and processing run of each
  updates,     \* PATCH requests handled so far
  now          \* the clock read by new Date()

harnessVars == <<vAnalysis, vText, vResult, vStored, uResponse, uOutcome,
                 sData, sResult, tReply, tOutcome>>
systemVars == <<cases, requests, updates, now>>
vars == <<vAnalysis, vText, vResult, vStored, uResponse, uOutcome,
          sData, sResult, tReply, tOutcome, cases, requests, updates, now>>

(***************************************************************************)
(* Bounds of the model.                                                    *)
(***************************************************************************)
\* Texts of the validation harness are made of at most MaxPieces fragments.
MaxPieces == 2

(***************************************************************************)
(* Optional values and JavaScript truthiness.                              *)
(***************************************************************************)
None == <<>>
Some(x) == <<x>>
IsSome(o) == Len(o) = 1
Get(o) == o[1]

\* A string field that is absent from an object (undefined).
Missing == "<missing>"
\* !s for a string-or-undefined s.
Falsy(s) == s \in {Missing, ""}

(***************************************************************************)
(* Keyword Safety Ruleset.                                                 *)
(***************************************************************************)
CRITICAL_KEYWORDS ==
  << <<"t","r","a","p","p","e","d">>,
     <<"s","t","u","c","k">>,
     <<"c","a","n","'","t"," ","m","o","v","e">>,
     <<"c","a","n","n","o","t"," ","m","o","v","e">>,
     <<"b","l","e","e","d","i","n","g">>,
     <<"b","l","o","o","d">>,
     <<"i","n","j","u","r","e","d">>,
     <<"h","u","r","t">>,
     <<"p","a","i","n">>,
     <<"f","i","r","e">>,
     <<"s","m","o","k","e">>,
     <<"b","u","r","n","i","n","g">>,
     <<"f","l","a","m","e","s">>,
     <<"d","r","o","w","n","i","n","g">>,
     <<"w","a","t","e","r"," ","r","i","s","i","n","g">>,
     <<"f","l","o","o","d">>,
     <<"c","o","l","l","a","p","s","e","d">>,
     <<"r","u","b","b","l","e">>,
     <<"d","e","b","r","i","s">>,
     <<"u","n","c","o","n","s","c","i","o","u","s">>,
     <<"n","o","t"," ","b","r","e","a","t","h","i","n","g">>,
     <<"c","h","e","s","t"," ","p","a","i","n">>,
     <<"h","e","l","p">>,
     <<"e","m","e","r","g","e","n","c","y">>,
     <<"u","r","g","e","n","t">>,
     <<"d","y","i","n","g">>,
     <<"b","r","o","k","e","n">>,
     <<"f","r","a","c","t","u","r","e">>,
     <<"s","e","v","e","r","e">>,
     <<"e","a","r","t","h","q","u","a","k","e">>,
     <<"a","f","t","e","r","s","h","o","c","k">> >>

HIGH_KEYWORDS ==
  << <<"l","o","s","t">>,
     <<"s","t","r","a","n","d","e","d">>,
     <<"a","l","o","n","e">>,
     <<"c","o","l","d">>,
     <<"f","r","e","e","z","i","n","g">>,
     <<"h","y","p","o","t","h","e","r","m","i","a">>,
     <<"d","e","h","y","d","r","a","t","e","d">>,
     <<"t","h","i","r","s","t","y">>,
     <<"n","o"," ","w","a","t","e","r">>,
     <<"h","u","n","g","r","y">>,
     <<"n","o"," ","f","o","o","d">>,
     <<"s","c","a","r","e","d">>,
     <<"a","f","r","a","i","d">>,
     <<"p","a","n","i","c">>,
     <<"s","h","e","l","t","e","r">>,
     <<"n","o","w","h","e","r","e"," ","t","o"," ","g","o">>,
     <<"s","u","p","p","l","i","e","s">>,
     <<"m","e","d","i","c","a","t","i","o","n">>,
     <<"m","e","d","i","c","i","n","e">> >>

UpperCase == <<"A","B","C","D","E","F","G","H","I","J","K","L","M",
               "N","O","P","Q","R","S","T","U","V","W","X","Y","Z">>
LowerCase == <<"a","b","c","d","e","f","g","h","i","j","k","l","m",
               "n","o","p","q","r","s","t","u","v","w","x","y","z">>

\* The lower-case letter of each upper-case letter.
LowerOf ==
  [ch \in {UpperCase[i] : i \in 1..Len(UpperCase)} |->
     LowerCase[CHOOSE i \in 1..Len(UpperCase) : UpperCase[i] = ch]]

\* String.prototype.toLowerCase on one character, then on a text.
LowerChar(ch) == IF ch \in DOMAIN LowerOf THEN LowerOf[ch] ELSE ch

toLowerCase(t) == [i \in 1..Len(t) |-> LowerChar(t[i])]

\* String.prototype.includes: k occurs in t as a contiguous substring.
includes(t, k) ==
  \E i \in 0..(Len(t) - Len(k)) : SubSeq(t, i + 1, i + Len(k)) = k

\* keyword.toLowerCase() of every keyword of a list.
lowerAll(list) == [j \in 1..Len(list) |-> toLowerCase(list[j])]

CriticalLower == lowerAll(CRITICAL_KEYWORDS)
HighLower == lowerAll(HIGH_KEYWORDS)

\* list.some(keyword => transcriptLower.includes(keyword.toLowerCase()))
someKeyword(lowered, transcriptLower) ==
  \E j \in 1..Len(lowered) : includes(transcriptLower, lowered[j])

(***************************************************************************)
(* Validation Engine.                                                      *)
(***************************************************************************)
\* The confidence thresholds, in hundredths.
ThresholdConfidence == 60
ReviewConfidence == 50

\* aiAnalysis.confidence >= 0.6 ; a missing confidence compares false.
confidenceAtLeast(aiAnalysis, n) ==
  IsSome(aiAnalysis.confidence) /\ Get(aiAnalysis.confidence) >= n
\* Mutant: the comparison includes the limit.
confidenceBelowOrEqual(aiAnalysis, n) ==
  IsSome(aiAnalysis.confidence) /\ Get(aiAnalysis.confidence) <= n

\* aiAnalysis.confidence < 0.5 ; a missing confidence compares false.
confidenceBelow(aiAnalysis, n) ==
  IsSome(aiAnalysis.confidence) /\ Get(aiAnalysis.confidence) < n

WarnLowConfidence == "Low confidence in AI analysis"
WarnKeywordMismatch == "Critical keywords detected but urgency not marked as CRITICAL"
WarnEventType == "Unable to determine event type"
WarnNeeds == "No specific needs identified"

generateWarnings(aiAnalysis, hasCriticalKeywords, meetsThreshold) ==
  (IF ~meetsThreshold THEN <<WarnLowConfidence>> ELSE <<>>)
  \o (IF hasCriticalKeywords /\ aiAnalysis.urgency # "CRITICAL"
      THEN <<WarnKeywordMismatch>> ELSE <<>>)
  \o (IF Falsy(aiAnalysis.eventType) \/ aiAnalysis.eventType = "Unknown"
      THEN <<WarnEventType>> ELSE <<>>)
  \o (IF ~IsSome(aiAnalysis.needs) \/ Len(Get(aiAnalysis.needs)) = 0
      THEN <<WarnNeeds>> ELSE <<>>)

\* Mutant: the override rule forgets the MEDIUM rating.
escalatesLowOnly(aiAnalysis, hasCriticalKeywords) ==
  hasCriticalKeywords /\ aiAnalysis.urgency = "LOW"

\* The override rule: critical keywords and a LOW or MEDIUM rating.
escalates(aiAnalysis, hasCriticalKeywords) ==
  hasCriticalKeywords /\ aiAnalysis.urgency \in {"LOW", "MEDIUM"}

\* Mutant: the override rule made symmetric, a CRITICAL rating without a
\* critical keyword is taken down to HIGH.
adjustUrgencyBothWays(aiAnalysis, hasCriticalKeywords) ==
  IF escalates(aiAnalysis, hasCriticalKeywords) THEN "CRITICAL"
  ELSE IF ~hasCriticalKeywords /\ aiAnalysis.urgency = "CRITICAL" THEN "HIGH"
  ELSE aiAnalysis.urgency

adjustUrgency(aiAnalysis, hasCriticalKeywords) ==
  IF escalates(aiAnalysis, hasCriticalKeywords) THEN "CRITICAL"
  ELSE aiAnalysis.urgency

\* Mutant: the confidence rule is skipped when a critical keyword matched.
needsManualReviewByKeywordFirst(aiAnalysis, hasCriticalKeywords) ==
  \/ escalates(aiAnalysis, hasCriticalKeywords)
  \/ ~hasCriticalKeywords /\ confidenceBelow(aiAnalysis, ReviewConfidence)
  \/ Falsy(aiAnalysis.eventType)
  \/ aiAnalysis.eventType = "Unknown"

needsManualReview(aiAnalysis, hasCriticalKeywords) ==
  \/ escalates(aiAnalysis, hasCriticalKeywords)
  \/ confidenceBelow(aiAnalysis, ReviewConfidence)
  \/ Falsy(aiAnalysis.eventType)
  \/ aiAnalysis.eventType = "Unknown"

validateAIAnalysis(aiAnalysis, transcript) ==
  LET transcriptLower == toLowerCase(transcript)
      hasCriticalKeywords == someKeyword(CriticalLower, transcriptLower)
      hasHighKeywords == someKeyword(HighLower, transcriptLower)
      meetsThreshold == confidenceAtLeast(aiAnalysis, ThresholdConfidence)
  IN [ hasKeywords |-> hasCriticalKeywords \/ hasHighKeywords,
       hasCriticalKeywords |-> hasCriticalKeywords,
       hasHighKeywords |-> hasHighKeywords,
       meetsThreshold |-> meetsThreshold,
       manualReview |-> needsManualReview(aiAnalysis, hasCriticalKeywords),
       adjustedUrgency |-> adjustUrgency(aiAnalysis, hasCriticalKeywords),
       validationPassed |-> TRUE,
       warnings |-> generateWarnings(aiAnalysis, hasCriticalKeywords, meetsThreshold) ]

\* The aiAnalysis object of the final update: { ...aiAnalysis, urgency: adjustedUrgency }.
finalAnalysis(aiAnalysis, validationResult) ==
  [aiAnalysis EXCEPT !.urgency = validationResult.adjustedUrgency]

\* Mutant: the final update leaves manualReview at the schema's default.
finalFlagsWithoutReview(validationResult) ==
  [ hasKeywords |-> Some(validationResult.hasKeywords),
    meetsThreshold |-> Some(validationResult.meetsThreshold),
    manualReview |-> Some(FALSE) ]

\* The validationFlags object of the final update.
finalFlags(validationResult) ==
  [ hasKeywords |-> Some(validationResult.hasKeywords),
    meetsThreshold |-> Some(validationResult.meetsThreshold),
    manualReview |-> Some(validationResult.manualReview) ]

(***************************************************************************)
(* Structured Analysis Adapter.                                            *)
(*                                                                         *)
(* A reply of the completion service is                                    *)
(*   kind "error": the call rejects with an error carrying status          *)
(*                 (0: no status, e.g. a network error or a timeout),      *)
(*   kind "text":  the call returns content JSON.parse rejects,            *)
(*   kind "json":  the call returns content that parses to body.           *)
(***************************************************************************)
AuthStatus == 401

AuthErrorMessage == "Invalid OpenAI API key"

\* The record returned for every failure but an authentication failure.
DefaultAnalysis ==
  [ urgency |-> "HIGH",
    summary |-> "AI analysis failed - requires manual review",
    eventType |-> "Unknown",
    injuryStatus |-> "Unknown",
    riskFactors |-> Some(<<"AI processing error">>),
    needs |-> Some(<<"Manual review required">>),
    confidence |-> Some(0) ]

\* The body of a reply that carries none.
EmptyBody ==
  [ urgency |-> Missing, summary |-> Missing, eventType |-> Missing,
    injuryStatus |-> Missing, riskFactors |-> None, needs |-> None,
    confidence |-> None ]

Returned(a) == [threw |-> FALSE, message |-> "", value |-> Some(a)]
Thrown(msg) == [threw |-> TRUE, message |-> msg, value |-> None]

\* x || d for a string-or-undefined x.
OrElse(x, d) == IF Falsy(x) THEN d ELSE x

\* analysis.confidence || 0.5 : undefined and 0 are both falsy.
confidenceOrHalf(c) == IF IsSome(c) /\ Get(c) # 0 THEN c ELSE Some(50)

\* Array.isArray(x) ? x : []
arrayOrEmpty(x) == IF IsSome(x) THEN x ELSE Some(<<>>)

\* The record built from a parsed reply that passed the structure check.
shapeAnalysis(analysis) ==
  [ urgency |-> OrElse(analysis.urgency, "MEDIUM"),
    summary |-> OrElse(analysis.summary, "Unable to generate summary"),
    eventType |-> OrElse(analysis.eventType, "Unknown"),
    injuryStatus |-> OrElse(analysis.injuryStatus, "Unknown"),
    riskFactors |-> arrayOrEmpty(analysis.riskFactors),
    needs |-> arrayOrEmpty(analysis.needs),
    confidence |-> confidenceOrHalf(analysis.confidence) ]

\* Mutant: the catch block rethrows every error.
analysisFailureRethrown(status) ==
  IF status = AuthStatus THEN Thrown(AuthErrorMessage)
  ELSE Thrown("AI analysis failed")

\* The catch block: an error whose status is 401 is rethrown, every other
\* error yields the default record.
analysisFailure(status) ==
  IF status = AuthStatus THEN Thrown(AuthErrorMessage)
  ELSE Returned(DefaultAnalysis)

analyzeSOSContent(reply) ==
  CASE reply.kind = "error" -> analysisFailure(reply.status)
    [] reply.kind = "text" -> analysisFailure(0)
    [] OTHER ->
         IF Falsy(reply.body.urgency) \/ Falsy(reply.body.summary)
         THEN analysisFailure(0)
         ELSE Returned(shapeAnalysis(reply.body))

analyzeTextSOS(reply) == analyzeSOSContent(reply)

(***************************************************************************)
(* Inputs of the harnesses.                                                *)
(***************************************************************************)
Fragments ==
  << <<"h","e">>, <<"l","p">>, <<"H","E","L">>, <<"P">>,
     <<"l","o","s","t">>, <<" ","x">> >>

RECURSIVE TextsOf(_)
TextsOf(n) ==
  IF n = 0 THEN {<<>>}
  ELSE LET shorter == TextsOf(n - 1)
       IN shorter \cup
          {t \o Fragments[i] : t \in shorter, i \in 1..Len(Fragments)}

Texts == TextsOf(MaxPieces)

Urgencies == {"CRITICAL", "HIGH", "MEDIUM", "LOW"}

\* Arguments of validateAIAnalysis: any object, not only those
\* analyzeSOSContent returns ("SEVERE" is an urgency outside the enum).
Analyses ==
  [ urgency : Urgencies \cup {"SEVERE"},
    summary : {"s"},
    eventType : {Missing, "Unknown", "fire"},
    injuryStatus : {"none"},
    riskFactors : {Some(<<>>)},
    needs : {None, Some(<<>>), Some(<<"water">>)},
    confidence : {None, Some(0), Some(49), Some(50), Some(59), Some(60), Some(100)} ]

JsonBodies ==
  [ urgency : Urgencies \cup {Missing, "", "SEVERE"},
    summary : {Missing, "s"},
    eventType : {Missing, "Unknown", "fire"},
    injuryStatus : {"none"},
    riskFactors : {Some(<<>>)},
    needs : {None, Some(<<>>), Some(<<"water">>)},
    confidence : {None, Some(0), Some(30), Some(50), Some(90)} ]

Replies ==
  [kind : {"error"}, status : {AuthStatus, 429, 500, 0}, body : {EmptyBody}]
  \cup [kind : {"text"}, status : {200}, body : {EmptyBody}]
  \cup [kind : {"json"}, status : {200}, body : JsonBodies]

(***************************************************************************)
(* Transcription Adapter.                                                  *)
(*                                                                         *)
(* A reply of the transcription service is                                 *)
(*   kind "nofile": fs.existsSync(audioFilePath) is false,                 *)
(*   kind "enoent": the read stream fails with code ENOENT,                *)
(*   kind "error":  the call rejects with an error carrying status and     *)
(*                  message,                                               *)
(*   kind "ok":     the call returns text.                                 *)
(***************************************************************************)
FileMissingMessage == "Transcription failed: Audio file not found: <path>"
UpstreamFailedMessage == "Transcription failed: <upstream message>"

\* `Transcription failed: ${error.message}` for the messages of the model.
FailedWith(message) ==
  CASE message = "timeout" -> "Transcription failed: timeout"
    [] message = "rate limit" -> "Transcription failed: rate limit"
    [] OTHER -> UpstreamFailedMessage

TextReturned(t) == [threw |-> FALSE, message |-> "", value |-> Some(t)]

transcriptionFailure(reply) ==
  CASE reply.kind = "enoent" -> Thrown("Audio file not found")
    [] reply.kind = "nofile" -> Thrown(FileMissingMessage)
    [] reply.status = 401 -> Thrown("Invalid OpenAI API key")
    [] reply.status = 413 -> Thrown("Audio file too large (max 25MB)")
    [] OTHER -> Thrown(FailedWith(reply.message))

transcribeAudio(reply) ==
  IF reply.kind = "ok" THEN TextReturned(reply.text)
  ELSE transcriptionFailure(reply)

(***************************************************************************)
(* Intake validation.  Coordinates are tenths of a degree.                 *)
(***************************************************************************)
\* !x for a number-or-undefined x: undefined and 0 are falsy.
FalsyNumber(x) == ~IsSome(x) \/ Get(x) = 0

\* Mutant: only the upper end of the range is checked.
outOfRangeAboveOnly(x, lo, hi) == IsSome(x) /\ Get(x) > hi

\* x < lo || x > hi ; an undefined x compares false.
outOfRange(x, lo, hi) == IsSome(x) /\ (Get(x) < lo \/ Get(x) > hi)

validateSOSData(sosData) ==
  LET errors ==
        (IF Falsy(sosData.sessionId) THEN <<"Session ID is required">> ELSE <<>>)
        \o (IF Falsy(sosData.sosType) THEN <<"SOS type is required">> ELSE <<>>)
        \o (IF \/ ~IsSome(sosData.location)
               \/ FalsyNumber(Get(sosData.location).latitude)
               \/ FalsyNumber(Get(sosData.location).longitude)
            THEN <<"Location data is required">> ELSE <<>>)
        \o (IF IsSome(sosData.location)
               /\ outOfRange(Get(sosData.location).latitude, -900, 900)
            THEN <<"Invalid latitude value">> ELSE <<>>)
        \o (IF IsSome(sosData.location)
               /\ outOfRange(Get(sosData.location).longitude, -1800, 1800)
            THEN <<"Invalid longitude value">> ELSE <<>>)
        \o (IF ~Falsy(sosData.sosType)
               /\ sosData.sosType \notin {"voice", "text", "photo"}
            THEN <<"Invalid SOS type">> ELSE <<>>)
  IN [isValid |-> Len(errors) = 0, errors |-> errors]

\* String.prototype.trim, as far as message.trim().length === 0 needs it.
isBlank(t) == \A i \in 1..Len(t) : t[i] = " "

(***************************************************************************)
(* The SOS model: a document as SOS.create builds it, schema defaults      *)
(* included.                                                               *)
(***************************************************************************)
Statuses == {"pending", "processing", "processed", "failed", "assigned", "resolved"}

\* aiAnalysis of a new document: urgency defaults to MEDIUM, arrays to [].
SchemaAnalysis ==
  [ urgency |-> "MEDIUM", summary |-> Missing, eventType |-> Missing,
    injuryStatus |-> Missing, riskFactors |-> Some(<<>>), needs |-> Some(<<>>),
    confidence |-> None ]

SchemaFlags ==
  [hasKeywords |-> None, meetsThreshold |-> None, manualReview |-> Some(FALSE)]

NewDocument(sessionId, sosType, location, audioPath, message, receivedAt) ==
  [ sessionId |-> sessionId,
    sosType |-> sosType,
    location |-> location,
    originalData |-> [voiceFileUrl |-> audioPath, textMessage |-> message],
    transcript |-> message,
    aiAnalysis |-> SchemaAnalysis,
    validationFlags |-> SchemaFlags,
    status |-> "processing",
    processingErrors |-> <<>>,
    receivedAt |-> receivedAt,
    processedAt |-> None,
    assignedTo |-> Missing,
    assignedAt |-> None,
    resolvedAt |-> None,
    resolutionNotes |-> Missing ]

\* req.body and req.file of an intake request.
Body(sessionId, location, audio, message) ==
  [sessionId |-> sessionId, location |-> location, audio |-> audio,
   message |-> message]

\* An intake request: what it was sent with, the local variables of its
\* handler and of the processing run the handler starts.  sosId is the
\* document it created.
NewRequest(op, body, pc, sosId, transcript, response) ==
  [ op |-> op,
    body |-> body,
    pc |-> pc,
    sosId |-> sosId,
    transcript |-> transcript,
    reply |-> None,
    aiAnalysis |-> None,
    validationResult |-> None,
    error |-> None,
    response |-> response ]

\* res.status(code).json({ sosId, status }); sosId is absent from an error.
Response(op, code, status, sosId) ==
  [op |-> op, code |-> code, status |-> status, sosId |-> sosId]

DbErrorMessage == "<database error>"

(***************************************************************************)
(* Inputs of the handlers.                                                 *)
(***************************************************************************)
\* Intake requests the survivors send.
MaxRequests == 1
\* PATCH requests the rescuers send.
MaxUpdates == 2
\* The clock runs from 0 to MaxTime.
MaxTime == 1

SessionIds == {Missing, "s1"}

Coordinates(lat, lon) == Some([latitude |-> Some(lat), longitude |-> Some(lon)])

LocationInputs ==
  { None, Coordinates(129, 776), Coordinates(1200, 776), Coordinates(0, 776),
    Coordinates(129, -1801) }

AudioInputs == {None, Some("uploads/s1.wav")}

Transcripts == { <<"H","e","l","p">>, <<"l","o","s","t">>, <<"o","k">> }

\* "I am trapped under rubble, bleeding"
RubbleMessage ==
  << "I", " ", "a", "m", " ", "t", "r", "a", "p", "p", "e", "d", " ", "u",
     "n", "d", "e", "r", " ", "r", "u", "b", "b", "l", "e", ",", " ", "b",
     "l", "e", "e", "d", "i", "n", "g" >>

Messages ==
  {None, Some(<<>>), Some(<<" ">>), Some(RubbleMessage)} \cup {Some(t) : t \in Transcripts}

WhisperReplies ==
  [kind : {"ok"}, status : {200}, message : {""}, text : Transcripts]
  \cup [kind : {"nofile"}, status : {0}, message : {""}, text : {<<>>}]
  \cup [kind : {"error"}, status : {401, 500}, message : {"timeout"},
        text : {<<>>}]

SampleBody(urgency, eventType, confidence) ==
  [ urgency |-> urgency, summary |-> "s", eventType |-> eventType,
    injuryStatus |-> "none", riskFactors |-> Some(<<>>),
    needs |-> Some(<<"water">>), confidence |-> confidence ]

\* Replies of the completion service to the pipeline.
PipelineReplies ==
  [kind : {"error"}, status : {AuthStatus, 500}, body : {EmptyBody}]
  \cup [kind : {"text"}, status : {200}, body : {EmptyBody}]
  \cup [kind : {"json"}, status : {200},
        body : { SampleBody("LOW", "fire", Some(90)),
                 SampleBody("CRITICAL", Missing, Some(30)),
                 SampleBody("HIGH", "flood", Some(0)),
                 SampleBody("SEVERE", "fire", Some(90)) }]

StatusInputs == {Missing, "bogus"} \cup Statuses
AssigneeInputs == {Missing, "r1"}
NotesInputs == {Missing, "n"}

Ids == 1..Len(cases)
Requests == 1..Len(requests)

\* new Date(): the clock may have advanced since it was last read.
Dates == {t \in {now, now + 1} : t <= MaxTime}

\* The document of request r.
DocOf(r) == cases[Get(requests[r].sosId)]

(***************************************************************************)
(* createVoiceSOS: the handler up to its response.  The processing run is  *)
(* started, not awaited.                                                   *)
(***************************************************************************)
\* The handler answers without having created a document.
Refuse(op, body, code) ==
  /\ requests' = Append(requests,
        NewRequest(op, body, "refused", None, None,
                   Some(Response(op, code, "", None))))
  /\ UNCHANGED <<cases, now>>

\* The response of createVoiceSOS to a request it does not accept:
\* 400 without a file or with invalid data, 500 when JSON.parse(location)
\* throws on a missing location; 0 when the request is accepted.
voiceRefusal(sessionId, location, audio) ==
  IF ~IsSome(audio) THEN 400
  ELSE IF ~IsSome(location) THEN 500
  ELSE IF ~validateSOSData([sessionId |-> sessionId, sosType |-> "voice",
                            location |-> location]).isValid THEN 400
  ELSE 0

VoiceRejected(sessionId, location, audio) ==
  /\ Len(requests) < MaxRequests
  /\ voiceRefusal(sessionId, location, audio) # 0
  /\ Refuse("voice", Body(sessionId, location, audio, None),
            voiceRefusal(sessionId, location, audio))
  /\ UNCHANGED <<updates, harnessVars>>

\* Mutant: the handler awaits the processing run before it answers.
VoiceAcceptedAwaiting(sessionId, location, audio) ==
  /\ Len(requests) < MaxRequests
  /\ voiceRefusal(sessionId, location, audio) = 0
  /\ \E date \in Dates :
       /\ cases' = Append(cases, NewDocument(sessionId, "voice", location,
                                             audio, None, date))
       /\ now' = date
       /\ requests' = Append(requests,
             NewRequest("voice", Body(sessionId, location, audio, None),
                        "transcribe", Some(Len(cases) + 1), None, None))
  /\ UNCHANGED <<updates, harnessVars>>

VoiceAccepted(sessionId, location, audio) ==
  /\ Len(requests) < MaxRequests
  /\ voiceRefusal(sessionId, location, audio) = 0
  /\ \/ \E date \in Dates :
          /\ cases' = Append(cases, NewDocument(sessionId, "voice", location,
                                                audio, None, date))
          /\ now' = date
          /\ requests' = Append(requests,
                NewRequest("voice", Body(sessionId, location, audio, None),
                           "transcribe", Some(Len(cases) + 1), None,
                           Some(Response("voice", 201, "processing",
                                         Some(Len(cases) + 1)))))
     \* SOS.create throws
     \/ Refuse("voice", Body(sessionId, location, audio, None), 500)
  /\ UNCHANGED <<updates, harnessVars>>

createVoiceSOS ==
  \E sessionId \in SessionIds, location \in LocationInputs, audio \in AudioInputs :
    \/ VoiceRejected(sessionId, location, audio)
    \/ VoiceAccepted(sessionId, location, audio)

(***************************************************************************)
(* processVoiceSOS: one action per await.                                  *)
(***************************************************************************)
\* An exception inside the try block: control passes to the catch block.
ToCatch(r, message) ==
  requests' = [requests EXCEPT ![r].pc = "catch", ![r].error = Some(message)]

Transcribe(r) ==
  /\ r \in Requests
  /\ requests[r].pc = "transcribe"
  /\ \E reply \in WhisperReplies :
       LET outcome == transcribeAudio(reply)
       IN IF outcome.threw
          THEN ToCatch(r, outcome.message)
          ELSE requests' = [requests EXCEPT ![r].pc = "saveTranscript",
                                            ![r].transcript = outcome.value]
  /\ UNCHANGED <<cases, updates, now, harnessVars>>

\* Mutant: the first write keeps the status and forgets the transcript.
transcriptUpdateStatusOnly(doc, transcript) ==
  [doc EXCEPT !.status = "processing"]

\* findByIdAndUpdate(sosId, { transcript, status: "processing" })
transcriptUpdate(doc, transcript) ==
  [doc EXCEPT !.transcript = transcript, !.status = "processing"]

SaveTranscript(r) ==
  /\ r \in Requests
  /\ requests[r].pc = "saveTranscript"
  /\ \/ /\ cases' = [cases EXCEPT ![Get(requests[r].sosId)] =
                       transcriptUpdate(@, requests[r].transcript)]
        /\ requests' = [requests EXCEPT ![r].pc = "findById"]
     \/ /\ ToCatch(r, DbErrorMessage)
        /\ UNCHANGED cases
  /\ UNCHANGED <<updates, now, harnessVars>>

FindById(r) ==
  /\ r \in Requests
  /\ requests[r].pc = "findById"
  /\ \/ requests' = [requests EXCEPT ![r].pc = "analyze"]
     \/ ToCatch(r, DbErrorMessage)
  /\ UNCHANGED <<cases, updates, now, harnessVars>>

\* The adapter has returned: validation follows without an await.
Analyzed(r, reply, aiAnalysis) ==
  requests' = [requests EXCEPT
                 ![r].pc = "saveAnalysis",
                 ![r].reply = Some(reply),
                 ![r].aiAnalysis = Some(aiAnalysis),
                 ![r].validationResult =
                    Some(validateAIAnalysis(aiAnalysis, Get(requests[r].transcript)))]

AnalyzeVoice(r) ==
  /\ r \in Requests
  /\ requests[r].pc = "analyze"
  /\ requests[r].op = "voice"
  /\ \E reply \in PipelineReplies :
       LET outcome == analyzeSOSContent(reply)
       IN IF outcome.threw
          THEN requests' = [requests EXCEPT ![r].pc = "catch",
                                            ![r].reply = Some(reply),
                                            ![r].error = Some(outcome.message)]
          ELSE Analyzed(r, reply, Get(outcome.value))
  /\ UNCHANGED <<cases, updates, now, harnessVars>>

\* Mutant: the final update also rewrites the report kind.
processedUpdateRetyping(doc, aiAnalysis, validationResult, processedAt) ==
  [doc EXCEPT !.aiAnalysis = finalAnalysis(aiAnalysis, validationResult),
              !.validationFlags = finalFlags(validationResult),
              !.status = "processed",
              !.processedAt = Some(processedAt),
              !.sosType = "text"]

\* findByIdAndUpdate(sosId, { aiAnalysis, validationFlags, status, processedAt })
processedUpdate(doc, aiAnalysis, validationResult, processedAt) ==
  [doc EXCEPT !.aiAnalysis = finalAnalysis(aiAnalysis, validationResult),
              !.validationFlags = finalFlags(validationResult),
              !.status = "processed",
              !.processedAt = Some(processedAt)]

\* The final write of request r succeeds.
WriteProcessed(r) ==
  \E date \in Dates :
    /\ cases' = [cases EXCEPT ![Get(requests[r].sosId)] =
                   processedUpdate(@, Get(requests[r].aiAnalysis),
                                   Get(requests[r].validationResult), date)]
    /\ now' = date

SaveAnalysisVoice(r) ==
  /\ r \in Requests
  /\ requests[r].pc = "saveAnalysis"
  /\ requests[r].op = "voice"
  /\ \/ /\ WriteProcessed(r)
        /\ requests' = [requests EXCEPT ![r].pc = "done"]
     \/ /\ ToCatch(r, DbErrorMessage)
        /\ UNCHANGED <<cases, now>>
  /\ UNCHANGED <<updates, harnessVars>>

\* findByIdAndUpdate(sosId, { status: "failed", processingErrors: [error.message] })
failedUpdate(doc, message) ==
  [doc EXCEPT !.status = "failed", !.processingErrors = <<message>>]

\* Mutant: the rejection of a run whose failure write failed is not handled
\* and the unhandledRejection handler ends the process, every run with it.
CatchCrashing(r) ==
  /\ r \in Requests
  /\ requests[r].pc = "catch"
  /\ \/ /\ cases' = [cases EXCEPT ![Get(requests[r].sosId)] =
                       failedUpdate(@, Get(requests[r].error))]
        /\ requests' = [requests EXCEPT ![r].pc = "done"]
     \/ /\ requests' = [q \in DOMAIN requests |->
                          [requests[q] EXCEPT !.pc = "logged"]]
        /\ UNCHANGED cases
  /\ UNCHANGED <<updates, now, harnessVars>>

\* The catch block.  When its own write fails the run rejects, and the
\* rejection is logged by the handler createVoiceSOS attached to the run.
Catch(r) ==
  /\ r \in Requests
  /\ requests[r].pc = "catch"
  /\ \/ /\ cases' = [cases EXCEPT ![Get(requests[r].sosId)] =
                       failedUpdate(@, Get(requests[r].error))]
        /\ requests' = [requests EXCEPT ![r].pc = "done"]
     \/ /\ requests' = [requests EXCEPT ![r].pc = "logged"]
        /\ UNCHANGED cases
  /\ UNCHANGED <<updates, now, harnessVars>>

processVoiceSOS ==
  \E r \in 1..MaxRequests :
    \/ Transcribe(r)
    \/ SaveTranscript(r)
    \/ FindById(r)
    \/ AnalyzeVoice(r)
    \/ SaveAnalysisVoice(r)
    \/ Catch(r)

(***************************************************************************)
(* createTextSOS: the analysis is awaited inside the handler, and the      *)
(* handler's catch block only answers the request.                         *)
(***************************************************************************)
\* !message || message.trim().length === 0
messageMissing(message) == IF IsSome(message) THEN isBlank(Get(message)) ELSE TRUE

textRefusal(sessionId, location, message) ==
  IF ~validateSOSData([sessionId |-> sessionId, sosType |-> "text",
                       location |-> location]).isValid THEN 400
  ELSE IF messageMissing(message) THEN 400
  ELSE 0

TextRejected(sessionId, location, message) ==
  /\ Len(requests) < MaxRequests
  /\ textRefusal(sessionId, location, message) # 0
  /\ Refuse("text", Body(sessionId, location, None, message),
            textRefusal(sessionId, location, message))
  /\ UNCHANGED <<updates, harnessVars>>

TextAccepted(sessionId, location, message) ==
  /\ Len(requests) < MaxRequests
  /\ textRefusal(sessionId, location, message) = 0
  /\ \/ \E date \in Dates :
          /\ cases' = Append(cases, NewDocument(sessionId, "text", location,
                                                None, message, date))
          /\ now' = date
          /\ requests' = Append(requests,
                NewRequest("text", Body(sessionId, location, None, message),
                           "analyze", Some(Len(cases) + 1), message, None))
     \* SOS.create throws
     \/ Refuse("text", Body(sessionId, location, None, message), 500)
  /\ UNCHANGED <<updates, harnessVars>>

createTextSOS ==
  \E sessionId \in SessionIds, location \in LocationInputs, message \in Messages :
    \/ TextRejected(sessionId, location, message)
    \/ TextAccepted(sessionId, location, message)

\* The handler's catch block: res.status(500), nothing written.
TextFailed(r, reply) ==
  requests' = [requests EXCEPT ![r].pc = "aborted",
                               ![r].reply = reply,
                               ![r].response = Some(Response("text", 500, "", None))]

AnalyzeText(r) ==
  /\ r \in Requests
  /\ requests[r].pc = "analyze"
  /\ requests[r].op = "text"
  /\ \E reply \in PipelineReplies :
       LET outcome == analyzeTextSOS(reply)
       IN IF outcome.threw
          THEN TextFailed(r, Some(reply))
          ELSE Analyzed(r, reply, Get(outcome.value))
  /\ UNCHANGED <<cases, updates, now, harnessVars>>

SaveAnalysisText(r) ==
  /\ r \in Requests
  /\ requests[r].pc = "saveAnalysis"
  /\ requests[r].op = "text"
  /\ \/ /\ WriteProcessed(r)
        /\ requests' = [requests EXCEPT ![r].pc = "done",
                          ![r].response =
                             Some(Response("text", 201, "processed",
                                           requests[r].sosId))]
     \/ /\ TextFailed(r, requests[r].reply)
        /\ UNCHANGED <<cases, now>>
  /\ UNCHANGED <<updates, harnessVars>>

processTextSOS ==
  \E r \in 1..MaxRequests :
    \/ AnalyzeText(r)
    \/ SaveAnalysisText(r)

(***************************************************************************)
(* updateSOSStatus: PATCH /api/sos/:id.                                    *)
(***************************************************************************)
\* Mutant: the update also resets the recorded errors.
statusUpdateClearingErrors(doc, status, assignedTo, resolutionNotes, at) ==
  [doc EXCEPT
     !.status = IF Falsy(status) THEN @ ELSE status,
     !.assignedTo = IF Falsy(assignedTo) THEN @ ELSE assignedTo,
     !.assignedAt = IF Falsy(assignedTo) THEN @ ELSE Some(at),
     !.resolutionNotes = IF Falsy(resolutionNotes) THEN @ ELSE resolutionNotes,
     !.resolvedAt = IF ~Falsy(resolutionNotes) /\ status = "resolved"
                    THEN Some(at) ELSE @,
     !.processingErrors = <<>>]

\* updateData applied to the document.
statusUpdate(doc, status, assignedTo, resolutionNotes, at) ==
  [doc EXCEPT
     !.status = IF Falsy(status) THEN @ ELSE status,
     !.assignedTo = IF Falsy(assignedTo) THEN @ ELSE assignedTo,
     !.assignedAt = IF Falsy(assignedTo) THEN @ ELSE Some(at),
     !.resolutionNotes = IF Falsy(resolutionNotes) THEN @ ELSE resolutionNotes,
     !.resolvedAt = IF ~Falsy(resolutionNotes) /\ status = "resolved"
                    THEN Some(at) ELSE @]

\* runValidators: the status of the update must be in the schema's enum.
updateIsValid(status) == Falsy(status) \/ status \in Statuses

\* 500 (the write throws: the database, or the validators on a status
\* outside the enum) and 404 (no such document) change no document.
UpdateRefused == UNCHANGED <<cases, now>>

UpdateApplied(id, status, assignedTo, resolutionNotes) ==
  \E date \in Dates :
    /\ cases' = [cases EXCEPT ![id] =
                   statusUpdate(@, status, assignedTo, resolutionNotes, date)]
    /\ now' = date

updateSOSStatus ==
  /\ updates < MaxUpdates
  /\ updates' = updates + 1
  /\ \/ UpdateRefused
     \/ \E id \in 1..MaxRequests, status \in StatusInputs,
           assignedTo \in AssigneeInputs, resolutionNotes \in NotesInputs :
          /\ id \in Ids
          /\ updateIsValid(status)
          /\ UpdateApplied(id, status, assignedTo, resolutionNotes)
  /\ UNCHANGED <<requests, harnessVars>>

(***************************************************************************)
(* The service.                                                            *)
(***************************************************************************)
TranscribeIdle ==
  /\ tReply = [kind |-> "nofile", status |-> 0, message |-> "", text |-> <<>>]
  /\ tOutcome = None

IntakeIdle ==
  /\ sData = [sessionId |-> Missing, sosType |-> Missing, location |-> None]
  /\ sResult = None

HarnessIdle ==
  /\ vAnalysis = DefaultAnalysis
  /\ vText = <<>>
  /\ vResult = None
  /\ vStored = None
  /\ uResponse = [kind |-> "text", status |-> 200, body |-> EmptyBody]
  /\ uOutcome = None
  /\ IntakeIdle
  /\ TranscribeIdle

SystemIdle ==
  /\ cases = <<>>
  /\ requests = <<>>
  /\ updates = 0
  /\ now = 0

Init == HarnessIdle /\ SystemIdle

Next ==
  \/ createVoiceSOS
  \/ createTextSOS
  \/ processVoiceSOS
  \/ processTextSOS
  \/ updateSOSStatus

Spec == Init /\ [][Next]_vars

(***************************************************************************)
(* Several cases in flight: MaxInFlight intake requests have been accepted *)
(* and their handlers and processing runs interleave at every await.       *)
(***************************************************************************)
MaxInFlight == 2

InFlightBody(op) ==
  IF op = "voice"
  THEN Body("s1", Coordinates(129, 776), Some("uploads/s1.wav"), None)
  ELSE Body("s1", Coordinates(129, 776), None, Some(<<"H","e","l","p">>))

\* The document SOS.create made for the request.
InFlightDocument(op) ==
  NewDocument("s1", op, Coordinates(129, 776), InFlightBody(op).audio,
              InFlightBody(op).message, 0)

\* The request after SOS.create: a voice request is acknowledged and its run
\* is about to transcribe, a text request is about to call the analysis.
InFlightRequest(op, id) ==
  IF op = "voice"
  THEN NewRequest("voice", InFlightBody(op), "transcribe", Some(id), None,
                  Some(Response("voice", 201, "processing", Some(id))))
  ELSE NewRequest("text", InFlightBody(op), "analyze", Some(id),
                  InFlightBody(op).message, None)

InitInFlight ==
  /\ HarnessIdle
  /\ updates = 0
  /\ now = 0
  /\ \E ops \in [1..MaxInFlight -> {"voice", "text"}] :
       /\ cases = [i \in 1..MaxInFlight |-> InFlightDocument(ops[i])]
       /\ requests = [i \in 1..MaxInFlight |-> InFlightRequest(ops[i], i)]

\* One step of the handler or processing run of request r.
StepOf(r) ==
  \/ Transcribe(r)
  \/ SaveTranscript(r)
  \/ FindById(r)
  \/ AnalyzeVoice(r)
  \/ SaveAnalysisVoice(r)
  \/ Catch(r)
  \/ AnalyzeText(r)
  \/ SaveAnalysisText(r)

NextInFlight == \E r \in 1..MaxInFlight : StepOf(r)

SpecInFlight == InitInFlight /\ [][NextInFlight]_vars

(***************************************************************************)
(* validateAIAnalysis and the final update applied to every argument.      *)
(***************************************************************************)
InitValidate ==
  /\ vAnalysis \in Analyses
  /\ vText \in Texts
  /\ vResult = None
  /\ vStored = None
  /\ uResponse = [kind |-> "text", status |-> 200, body |-> EmptyBody]
  /\ uOutcome = None
  /\ IntakeIdle
  /\ TranscribeIdle
  /\ SystemIdle

ValidateProbe ==
  /\ vResult = None
  /\ vResult' = Some(validateAIAnalysis(vAnalysis, vText))
  /\ UNCHANGED <<vAnalysis, vText, vStored, uResponse, uOutcome, sData, sResult,
               tReply, tOutcome>>
  /\ UNCHANGED systemVars

PersistProbe ==
  /\ IsSome(vResult)
  /\ vStored = None
  /\ vStored' = Some(finalAnalysis(vAnalysis, Get(vResult)))
  /\ UNCHANGED <<vAnalysis, vText, vResult, uResponse, uOutcome, sData, sResult,
               tReply, tOutcome>>
  /\ UNCHANGED systemVars

NextValidate == ValidateProbe \/ PersistProbe

SpecValidate == InitValidate /\ [][NextValidate]_vars

(***************************************************************************)
(* analyzeSOSContent applied to every reply.                               *)
(***************************************************************************)
InitAnalyze ==
  /\ vAnalysis = DefaultAnalysis
  /\ vText = <<>>
  /\ vResult = None
  /\ vStored = None
  /\ uResponse \in Replies
  /\ uOutcome = None
  /\ IntakeIdle
  /\ TranscribeIdle
  /\ SystemIdle

AnalyzeProbe ==
  /\ uOutcome = None
  /\ uOutcome' = Some(analyzeSOSContent(uResponse))
  /\ UNCHANGED <<vAnalysis, vText, vResult, vStored, uResponse, sData, sResult,
               tReply, tOutcome>>
  /\ UNCHANGED systemVars

NextAnalyze == AnalyzeProbe

SpecAnalyze == InitAnalyze /\ [][NextAnalyze]_vars

(***************************************************************************)
(* validateSOSData applied to every sosData.                               *)
(***************************************************************************)
\* Tenths of a degree: both ends of each range, one step beyond, and zero.
Latitudes == {None} \cup {Some(x) : x \in {-901, -900, 0, 129, 900, 901}}
Longitudes == {None} \cup {Some(x) : x \in {-1801, -1800, 0, 776, 1800, 1801}}

SosDataInputs ==
  [ sessionId : {Missing, "", "s1"},
    sosType : {Missing, "voice", "text", "photo", "video"},
    location : {None} \cup {Some(l) : l \in [latitude : Latitudes,
                                              longitude : Longitudes]} ]

InitIntake ==
  /\ vAnalysis = DefaultAnalysis
  /\ vText = <<>>
  /\ vResult = None
  /\ vStored = None
  /\ uResponse = [kind |-> "text", status |-> 200, body |-> EmptyBody]
  /\ uOutcome = None
  /\ sData \in SosDataInputs
  /\ sResult = None
  /\ TranscribeIdle
  /\ SystemIdle

IntakeProbe ==
  /\ sResult = None
  /\ sResult' = Some(validateSOSData(sData))
  /\ UNCHANGED <<vAnalysis, vText, vResult, vStored, uResponse, uOutcome, sData,
               tReply, tOutcome>>
  /\ UNCHANGED systemVars

NextIntake == IntakeProbe

SpecIntake == InitIntake /\ [][NextIntake]_vars

(***************************************************************************)
(* transcribeAudio applied to every reply.                                 *)
(***************************************************************************)
\* Status 0: an error without status (network error, timeout).
TranscriptionReplies ==
  [kind : {"ok"}, status : {200}, message : {""}, text : Texts]
  \cup [kind : {"nofile", "enoent"}, status : {0}, message : {""}, text : {<<>>}]
  \cup [kind : {"error"}, status : {401, 413, 429, 500, 0},
        message : {"timeout", "rate limit", "other"}, text : {<<>>}]

InitTranscribe ==
  /\ vAnalysis = DefaultAnalysis
  /\ vText = <<>>
  /\ vResult = None
  /\ vStored = None
  /\ uResponse = [kind |-> "text", status |-> 200, body |-> EmptyBody]
  /\ uOutcome = None
  /\ IntakeIdle
  /\ tReply \in TranscriptionReplies
  /\ tOutcome = None
  /\ SystemIdle

TranscribeProbe ==
  /\ tOutcome = None
  /\ tOutcome' = Some(transcribeAudio(tReply))
  /\ UNCHANGED <<vAnalysis, vText, vResult, vStored, uResponse, uOutcome,
                 sData, sResult, tReply>>
  /\ UNCHANGED systemVars

NextTranscribe == TranscribeProbe

SpecTranscribe == InitTranscribe /\ [][NextTranscribe]_vars

(***************************************************************************)
(* Properties.                                                             *)
(***************************************************************************)
\* The text contains keyword k, compared character by character without
\* regard to case.
OccursAt(text, k, i) ==
  \A n \in 1..Len(k) : LowerChar(text[i + n]) = LowerChar(k[n])

Contains(text, k) == \E i \in 0..(Len(text) - Len(k)) : OccursAt(text, k, i)

HasCriticalKeyword(text) ==
  \E j \in 1..Len(CRITICAL_KEYWORDS) : Contains(text, CRITICAL_KEYWORDS[j])

\* LOW < MEDIUM < HIGH < CRITICAL.
Rank(u) == CASE u = "LOW" -> 1 [] u = "MEDIUM" -> 2 [] u = "HIGH" -> 3 [] OTHER -> 4

\* a is not below b; a rating outside the four levels is only comparable
\* with itself.
NotBelow(a, b) == a = b \/ (a \in Urgencies /\ b \in Urgencies /\ Rank(a) >= Rank(b))

\* C1: whenever the text holds a critical keyword and the raw urgency is LOW
\* or MEDIUM, validateAIAnalysis returns adjustedUrgency CRITICAL and
\* manualReview true.
C1_CriticalKeywordEscalates ==
  (IsSome(vResult) /\ HasCriticalKeyword(vText)
     /\ vAnalysis.urgency \in {"LOW", "MEDIUM"})
  => (Get(vResult).adjustedUrgency = "CRITICAL" /\ Get(vResult).manualReview)

C1_Witness ==
  /\ IsSome(vResult)
  /\ vText = <<"H","E","L","P">>
  /\ vAnalysis.urgency = "MEDIUM"
  /\ vAnalysis.confidence = Some(100)
  /\ vAnalysis.eventType = "fire"
  /\ Get(vResult).adjustedUrgency = "CRITICAL"
  /\ Get(vResult).manualReview

\* C2: the adjusted urgency validateAIAnalysis returns is never below the raw
\* urgency, and the urgency the final update stores is never below the
\* urgency of the analysis it was computed from.
C2_NeverLowersUrgency ==
  /\ IsSome(vResult) => NotBelow(Get(vResult).adjustedUrgency, vAnalysis.urgency)
  /\ IsSome(vStored) => NotBelow(Get(vStored).urgency, vAnalysis.urgency)

C2_Witness ==
  /\ IsSome(vStored)
  /\ vAnalysis.urgency = "CRITICAL"
  /\ ~HasCriticalKeyword(vText)
  /\ Get(vStored).urgency = "CRITICAL"

\* The run of request r has ended: no step of its handler or of its
\* processing run is left.
RunEnded(r) == requests[r].pc \in {"done", "logged", "aborted"}

Created(r) == r \in Requests /\ IsSome(requests[r].sosId)

\* C3: every case created in processing reaches processed or failed; stated
\* on finished runs: once the run of a case has ended, and no rescuer has
\* touched the case, its state is processed or failed.
C3_EveryCaseReachesTerminalState ==
  \A r \in Requests :
    (Created(r) /\ RunEnded(r) /\ updates = 0)
    => DocOf(r).status \in {"processed", "failed"}

\* C4: once a case is failed or resolved, no step of its handler or of its
\* processing run changes the state (a step of a run changes requests, a
\* rescuer update does not).
C4_TerminalStatesStay ==
  [][ requests' # requests
      => \A c \in Ids :
           cases[c].status \in {"failed", "resolved"}
           => cases'[c].status = cases[c].status ]_vars

\* The analysis of a document has been populated: it holds more than the
\* schema gives a new document.
AnalysisPopulated(doc) == ~Falsy(doc.aiAnalysis.summary)

\* C5: a case is in state processed exactly when it has a transcript and an
\* analysis, whichever operation put it there.
C5_ProcessedIffTranscriptAndAnalysis ==
  \A c \in Ids :
    cases[c].status = "processed"
    <=> (IsSome(cases[c].transcript) /\ AnalysisPopulated(cases[c]))

\* The request that created document c.
RequestOf(c) == CHOOSE r \in Requests : requests[r].sosId = Some(c)

\* C6: a case in state processed carries the adjusted urgency the validation
\* computed for its analysis and transcript.
C6_ProcessedUrgencyIsValidated ==
  \A c \in Ids :
    cases[c].status = "processed"
    => /\ IsSome(requests[RequestOf(c)].aiAnalysis)
       /\ IsSome(cases[c].transcript)
       /\ cases[c].aiAnalysis.urgency =
            validateAIAnalysis(Get(requests[RequestOf(c)].aiAnalysis),
                               Get(cases[c].transcript)).adjustedUrgency

\* C7: the analysis adapter is called only once the transcript is stored on
\* the case, validation is applied only to an analysis the adapter returned,
\* and the adapter is never called for a voice case without a transcript.
C7_StagesInOrder ==
  \A r \in Requests :
    Created(r) =>
      /\ IsSome(requests[r].reply)
         => (IsSome(DocOf(r).transcript)
             /\ DocOf(r).transcript = requests[r].transcript)
      /\ IsSome(requests[r].validationResult)
         => (IsSome(requests[r].reply) /\ IsSome(requests[r].aiAnalysis)
             /\ ~analyzeSOSContent(Get(requests[r].reply)).threw)
      /\ (requests[r].op = "voice" /\ ~IsSome(requests[r].transcript))
         => ~IsSome(requests[r].reply)

C7_Witness ==
  \E r \in Requests :
    /\ requests[r].op = "voice"
    /\ requests[r].pc = "saveAnalysis"
    /\ IsSome(requests[r].validationResult)
    /\ DocOf(r).transcript = Some(<<"H","e","l","p">>)
    /\ DocOf(r).status = "processing"

\* The transcription of voice request r has failed.
TranscriptionFailed(r) ==
  /\ Created(r)
  /\ requests[r].op = "voice"
  /\ ~IsSome(requests[r].transcript)
  /\ IsSome(requests[r].error)

\* C8: a voice case whose transcription failed ends failed, with a recorded
\* error and with no analysis field on the record (no rescuer involved).
C8_TranscriptionFailureLeavesNoAnalysis ==
  \A r \in Requests :
    (TranscriptionFailed(r) /\ RunEnded(r) /\ updates = 0)
    => /\ DocOf(r).status = "failed"
       /\ DocOf(r).processingErrors # <<>>
       /\ Falsy(DocOf(r).aiAnalysis.urgency)
       /\ ~AnalysisPopulated(DocOf(r))

\* The analysis adapter raised the authentication fault for request r.
AuthFault(r) ==
  /\ Created(r)
  /\ IsSome(requests[r].reply)
  /\ Get(requests[r].reply).kind = "error"
  /\ Get(requests[r].reply).status = AuthStatus

\* C9: after an authentication fault of the analysis adapter the case is
\* failed and the message is recorded, for text and voice cases alike (no
\* rescuer involved).
C9_AuthFaultFailsTheCase ==
  \A r \in Requests :
    (AuthFault(r) /\ RunEnded(r) /\ updates = 0)
    => /\ DocOf(r).status = "failed"
       /\ \E i \in 1..Len(DocOf(r).processingErrors) :
            DocOf(r).processingErrors[i] = AuthErrorMessage

\* The call failed for another reason than authentication, or its output is
\* not valid JSON, or the parsed output lacks the urgency or the summary the
\* structure check requires.
DegradedReply(reply) ==
  \/ reply.kind = "error" /\ reply.status # 401
  \/ reply.kind = "text"
  \/ /\ reply.kind = "json"
     /\ \/ reply.body.urgency \in {Missing, ""}
        \/ reply.body.summary \in {Missing, ""}

\* C10: on such a reply analyzeSOSContent does not throw and returns the
\* default record: urgency HIGH, confidence 0.0, eventType Unknown, needs
\* ["Manual review required"].
C10_DegradedResult ==
  (IsSome(uOutcome) /\ DegradedReply(uResponse))
  => /\ ~Get(uOutcome).threw
     /\ IsSome(Get(uOutcome).value)
     /\ Get(Get(uOutcome).value).urgency = "HIGH"
     /\ Get(Get(uOutcome).value).confidence = Some(0)
     /\ Get(Get(uOutcome).value).eventType = "Unknown"
     /\ Get(Get(uOutcome).value).needs = Some(<<"Manual review required">>)

C10_Witness ==
  /\ IsSome(uOutcome)
  /\ uResponse.kind = "json"
  /\ uResponse.body.urgency = "LOW"
  /\ uResponse.body.summary = Missing
  /\ ~Get(uOutcome).threw
  /\ Get(Get(uOutcome).value).urgency = "HIGH"

\* A coordinate that is a number outside [lo, hi].
Outside(x, lo, hi) == IsSome(x) /\ (Get(x) < lo \/ Get(x) > hi)

\* The intake request fails validation: no session id, no location, a
\* latitude outside [-90, 90], a longitude outside [-180, 180], an empty text
\* message, or no audio file.
InvalidIntake(op, body) ==
  \/ body.sessionId \in {Missing, ""}
  \/ ~IsSome(body.location)
  \/ /\ IsSome(body.location)
     /\ \/ Outside(Get(body.location).latitude, -900, 900)
        \/ Outside(Get(body.location).longitude, -1800, 1800)
  \/ op = "text" /\ body.message \in {None, Some(<<>>)}
  \/ op = "voice" /\ ~IsSome(body.audio)

\* C11: an intake request that fails validation is answered with an error
\* and creates no case: the collection holds exactly the documents of the
\* requests that were accepted.
C11_RejectedIntakeCreatesNoCase ==
  /\ \A r \in Requests :
       InvalidIntake(requests[r].op, requests[r].body)
       => /\ requests[r].pc = "refused"
          /\ ~IsSome(requests[r].sosId)
          /\ IsSome(requests[r].response)
          /\ Get(requests[r].response).code \in {400, 500}
  /\ Len(cases) = Cardinality({r \in Requests : IsSome(requests[r].sosId)})

C11_Witness ==
  \E r \in Requests :
    /\ requests[r].op = "text"
    /\ requests[r].body =
         Body("s1", Coordinates(1200, 776), None, Some(<<"H","e","l","p">>))
    /\ requests[r].pc = "refused"
    /\ Get(requests[r].response).code = 400
    /\ cases = <<>>

\* The sosData of an intake with a session id, a report kind and numeric
\* coordinates inside the ranges, both ends and zero included.
ValidIntakeData(sosData) ==
  /\ sosData.sessionId \notin {Missing, ""}
  /\ sosData.sosType \in {"voice", "text", "photo"}
  /\ IsSome(sosData.location)
  /\ IsSome(Get(sosData.location).latitude)
  /\ IsSome(Get(sosData.location).longitude)
  /\ ~Outside(Get(sosData.location).latitude, -900, 900)
  /\ ~Outside(Get(sosData.location).longitude, -1800, 1800)

\* C12: every sosData with a session id and coordinates inside the ranges
\* passes validateSOSData, a latitude or longitude of 0 included.
C12_ValidCoordinatesPass ==
  (IsSome(sResult) /\ ValidIntakeData(sData)) => Get(sResult).isValid

\* The acknowledgement of a voice intake: 201 with the case identifier and
\* status processing.
Acknowledged(r) ==
  /\ IsSome(requests[r].sosId)
  /\ Get(requests[r].sosId) \in Ids
  /\ requests[r].response =
       Some(Response("voice", 201, "processing", requests[r].sosId))

\* C13: a voice request that created a case has its acknowledgement from the
\* moment the case exists, the case being in processing while the
\* transcription has not completed; and no later step of the processing run
\* or of a rescuer changes the acknowledgement.
C13_AcknowledgedBeforePipeline ==
  /\ [](\A r \in Requests :
          (requests[r].op = "voice" /\ Created(r))
          => /\ Acknowledged(r)
             /\ (requests[r].pc = "transcribe" /\ updates = 0)
                => DocOf(r).status = "processing")
  /\ [][\A r \in Requests :
          requests[r].op = "voice"
          => requests'[r].response = requests[r].response]_vars

C13_Witness ==
  \E r \in Requests :
    /\ requests[r].op = "voice"
    /\ requests[r].pc = "transcribe"
    /\ Acknowledged(r)
    /\ DocOf(r).status = "processing"
    /\ ~IsSome(DocOf(r).transcript)

\* A step of updateSOSStatus counts a PATCH request; a step of an intake
\* handler or of a processing run changes requests.
RescuerStep == updates' # updates
PipelineStep == requests' # requests

\* C14: a rescuer update modifies no case that is still in processing, and
\* the steps of a processing run change the state of a case only while it is
\* in processing, so that they overwrite no state a rescuer wrote.
C14_UpdatesOnlyAfterProcessed ==
  [][ /\ RescuerStep
         => \A c \in Ids :
              cases[c].status = "processing" => cases'[c] = cases[c]
      /\ PipelineStep
         => \A c \in Ids :
              cases'[c].status # cases[c].status
              => cases[c].status = "processing" ]_vars

\* The edges of the lifecycle: the pipeline takes a case from processing to
\* processed or failed, a rescuer from processed to assigned and from
\* assigned to resolved.
LifecycleEdge(from, to) ==
  \/ PipelineStep /\ from = "pending" /\ to = "processing"
  \/ PipelineStep /\ from = "processing" /\ to \in {"processed", "failed"}
  \/ RescuerStep /\ from = "processed" /\ to = "assigned"
  \/ RescuerStep /\ from = "assigned" /\ to = "resolved"

\* C15: every change of a case's state follows an edge of the lifecycle.
C15_TransitionsFollowLifecycle ==
  [][ \A c \in Ids :
        cases'[c].status # cases[c].status
        => LifecycleEdge(cases[c].status, cases'[c].status) ]_vars

\* C16: a confidence below 0.5 gives manualReview true, whatever the text
\* and the raw urgency.
C16_LowConfidenceNeedsReview ==
  (IsSome(vResult) /\ IsSome(vAnalysis.confidence)
     /\ Get(vAnalysis.confidence) < 50)
  => Get(vResult).manualReview

C16_Witness ==
  /\ IsSome(vResult)
  /\ vAnalysis.confidence = Some(49)
  /\ vAnalysis.urgency = "CRITICAL"
  /\ vAnalysis.eventType = "fire"
  /\ HasCriticalKeyword(vText)
  /\ Get(vResult).manualReview
  /\ Get(vResult).adjustedUrgency = "CRITICAL"

\* The text report "I am trapped under rubble, bleeding" sent from
\* (12.9, 77.6).
RubbleReport(r) ==
  /\ requests[r].op = "text"
  /\ requests[r].body =
       Body("s1", Coordinates(129, 776), None, Some(RubbleMessage))

\* C17: once the handler has stored the analysis of that report, the case is
\* processed with urgency CRITICAL, hasKeywords true and manualReview true,
\* whatever record the analysis adapter returned (no rescuer involved).
C17_RubbleReportIsCritical ==
  \A r \in Requests :
    (RubbleReport(r) /\ IsSome(requests[r].aiAnalysis)
       /\ requests[r].pc = "done" /\ updates = 0)
    => /\ DocOf(r).status = "processed"
       /\ DocOf(r).aiAnalysis.urgency = "CRITICAL"
       /\ DocOf(r).validationFlags.hasKeywords = Some(TRUE)
       /\ DocOf(r).validationFlags.manualReview = Some(TRUE)

\* Sequence a is a prefix of sequence b.
IsPrefix(a, b) == Len(a) <= Len(b) /\ \A i \in 1..Len(a) : b[i] = a[i]

\* C18: in every step the processingErrors of a case before the step are a
\* prefix of its processingErrors after the step.
C18_ProcessingErrorsAppendOnly ==
  [][ \A c \in Ids :
        IsPrefix(cases[c].processingErrors, cases'[c].processingErrors) ]_vars

C18_Witness ==
  \E c \in Ids :
    /\ cases[c].processingErrors = <<FileMissingMessage>>
    /\ cases[c].status = "assigned"
    /\ cases[c].assignedTo = "r1"

\* C19: no step changes the sosType of an existing case, and the sosType is
\* the kind of the intake that created the case.
C19_ReportKindIsFixed ==
  /\ [](\A r \in Requests : Created(r) => DocOf(r).sosType = requests[r].op)
  /\ [][ \A c \in Ids : cases'[c].sosType = cases[c].sosType ]_vars

C19_Witness ==
  \E c \in Ids :
    /\ cases[c].sosType = "voice"
    /\ cases[c].status = "resolved"
    /\ IsSome(cases[c].processedAt)
    /\ IsSome(cases[c].resolvedAt)

\* C20: when updateSOSStatus has applied an update to a case, applying the
\* same update once more, at whatever time the clock then shows, leaves the
\* case as it is, assignedAt and resolvedAt included.
C20_UpdatesAreIdempotent ==
  [][ \A id \in Ids, status \in StatusInputs,
         assignedTo \in AssigneeInputs, resolutionNotes \in NotesInputs :
        (RescuerStep /\ updateIsValid(status)
           /\ UpdateApplied(id, status, assignedTo, resolutionNotes))
        => \A again \in {t \in {now', now' + 1} : t <= MaxTime} :
             statusUpdate(cases'[id], status, assignedTo, resolutionNotes, again)
               = cases'[id] ]_vars

\* The message each error kind of the transcription adapter is thrown with.
NotFoundMessage == "Audio file not found"
UnauthorizedMessage == "Invalid OpenAI API key"
TooLargeMessage == "Audio file too large (max 25MB)"

\* The failure the transcription adapter is to report for a reply.
ExpectedFailure(reply) ==
  CASE reply.kind \in {"nofile", "enoent"} -> NotFoundMessage
    [] reply.status = 401 -> UnauthorizedMessage
    [] reply.status = 413 -> TooLargeMessage
    [] OTHER -> FailedWith(reply.message)

\* C21: transcribeAudio fails with NotFound for a missing audio file,
\* Unauthorized for an upstream 401, TooLarge for an upstream 413, and the
\* generic failure carrying the upstream message for every other failure.
C21_FailureKinds ==
  (IsSome(tOutcome) /\ tReply.kind # "ok")
  => /\ Get(tOutcome).threw
     /\ Get(tOutcome).message = ExpectedFailure(tReply)

\* Message m is in the list of warnings.
Warned(warnings, m) == \E i \in 1..Len(warnings) : warnings[i] = m

\* C22: the keyword/urgency mismatch warning is returned exactly when the
\* text holds a critical keyword and the adjusted urgency is not CRITICAL.
C22_MismatchWarningUsesAdjustedUrgency ==
  IsSome(vResult)
  => (Warned(Get(vResult).warnings, WarnKeywordMismatch)
      <=> (HasCriticalKeyword(vText)
           /\ Get(vResult).adjustedUrgency # "CRITICAL"))

\* C23: a step of one request's handler or processing run, a failing one
\* included, changes neither the record nor the document of any other
\* request, and whatever has happened to the other runs, a run that has not
\* ended can take its next step.
C23_PipelinesAreIndependent ==
  /\ [](\A q \in Requests : ~RunEnded(q) => ENABLED StepOf(q))
  /\ [][ \A r \in Requests :
          requests'[r] # requests[r]
          => \A q \in Requests \ {r} :
               /\ requests'[q] = requests[q]
               /\ cases'[Get(requests[q].sosId)] = DocOf(q) ]_vars

C23_Witness ==
  \E r \in Requests, q \in Requests :
    /\ r # q
    /\ requests[r].pc = "logged"
    /\ DocOf(r).status = "processing"
    /\ requests[q].pc = "done"
    /\ DocOf(q).status = "processed"

\* C24: a case in state failed has a recorded error, whichever operation put
\* it into failed.
C24_FailedHasErrors ==
  \A c \in Ids : cases[c].status = "failed" => cases[c].processingErrors # <<>>

\* C25: validateAIAnalysis returns manualReview true exactly when the
\* override rule applies, or the confidence is below 0.5, or the eventType is
\* missing or "Unknown".
C25_ManualReviewExactly ==
  IsSome(vResult)
  => (Get(vResult).manualReview
      <=> \/ HasCriticalKeyword(vText) /\ vAnalysis.urgency \in {"LOW", "MEDIUM"}
          \/ IsSome(vAnalysis.confidence) /\ Get(vAnalysis.confidence) < 50
          \/ vAnalysis.eventType \in {Missing, "", "Unknown"})

C25_Witness ==
  /\ IsSome(vResult)
  /\ vAnalysis.confidence = Some(50)
  /\ vAnalysis.eventType = "fire"
  /\ vAnalysis.urgency = "HIGH"
  /\ HasCriticalKeyword(vText)
  /\ ~Get(vResult).manualReview

\* C26: the urgency stored on a case is one of CRITICAL, HIGH, MEDIUM, LOW,
\* whatever the completion service returned.
C26_StoredUrgencyInEnum ==
  \A c \in Ids : cases[c].aiAnalysis.urgency \in Urgencies

\* The fields of record of a case: urgency, validation flags, transcript
\* and location.
Record(doc) ==
  <<doc.aiAnalysis.urgency, doc.validationFlags, doc.transcript, doc.location>>

\* C27: once a case has reached processed (it is processed, assigned or
\* resolved), no step changes its urgency, its validation flags, its
\* transcript or its location.
C27_ProcessedRecordIsFrozen ==
  [][ \A c \in Ids :
        cases[c].status \in {"processed", "assigned", "resolved"}
        => Record(cases'[c]) = Record(cases[c]) ]_vars

\* The run of request r stored the analysis the adapter returned.
StoredAnalysis(r) ==
  /\ Created(r)
  /\ requests[r].pc = "done"
  /\ IsSome(requests[r].aiAnalysis)
  /\ ~IsSome(requests[r].error)

\* C28: when the analysis adapter returned the default record, the run
\* stores manualReview true, meetsThreshold false and urgency HIGH, whatever
\* the transcript, and the case is processed unless a rescuer has moved it.
C28_DegradedCaseNeedsReview ==
  \A r \in Requests :
    (StoredAnalysis(r) /\ requests[r].aiAnalysis = Some(DefaultAnalysis))
    => /\ DocOf(r).validationFlags.manualReview = Some(TRUE)
       /\ DocOf(r).validationFlags.meetsThreshold = Some(FALSE)
       /\ DocOf(r).aiAnalysis.urgency = "HIGH"
       /\ updates = 0 => DocOf(r).status = "processed"

C28_Witness ==
  \E r \in Requests :
    /\ StoredAnalysis(r)
    /\ requests[r].op = "voice"
    /\ requests[r].aiAnalysis = Some(DefaultAnalysis)
    /\ HasCriticalKeyword(Get(DocOf(r).transcript))
    /\ DocOf(r).aiAnalysis.urgency = "HIGH"
    /\ DocOf(r).status = "processed"

\* The reply parses to an object with urgency, summary and a confidence.
WellFormed(reply) ==
  /\ reply.kind = "json"
  /\ reply.body.urgency \notin {Missing, ""}
  /\ reply.body.summary \notin {Missing, ""}
  /\ IsSome(reply.body.confidence)

\* C29: for a well-formed reply the confidence analyzeSOSContent returns is
\* the confidence of the reply, 0 included, so that a confidence below 0.5
\* is flagged for manual review by the validation.
C29_ConfidencePreserved ==
  (IsSome(uOutcome) /\ WellFormed(uResponse))
  => /\ ~Get(uOutcome).threw
     /\ Get(Get(uOutcome).value).confidence = uResponse.body.confidence
     /\ Get(uResponse.body.confidence) < 50
        => validateAIAnalysis(Get(Get(uOutcome).value), <<"o","k">>).manualReview

\* C30: a resolved case has a resolution timestamp, an assigned case has an
\* assignee and an assignment timestamp.
C30_StatusHasItsTimestamps ==
  \A c \in Ids :
    /\ cases[c].status = "resolved" => IsSome(cases[c].resolvedAt)
    /\ cases[c].status = "assigned"
       => (~Falsy(cases[c].assignedTo) /\ IsSome(cases[c].assignedAt))

====
